---- MODULE Spec2Model ----
(***************************************************************************)
(* static_http_cache: the metadata store (src/src/db.rs: CacheDB,          *)
(* Transaction) and the revalidation engine (src/src/lib.rs: Cache::get,   *)
(* record_response, make_random_file) over an abstract transport           *)
(* (src/src/reqwest_mock.rs).                                              *)
(*                                                                         *)
(* Representation.  A text (a Rust String, an SQLite TEXT) is a sequence   *)
(* of tokens; a path is the sequence of its components, so that            *)
(* root.join(p) is Root \o p and the text "content/<name>" is              *)
(* <<"content", name>>.  An SQLite Value is [kind, v]; an Option is        *)
(* [some, v].                                                              *)
(***************************************************************************)
EXTENDS Integers, Sequences, FiniteSets, TLC

\* ------------------------------------------------------------------ bounds

\* Number of distinct random names make_random_file can draw; a call of
\* Cache::get starts only while one of them is still unused.
MaxFiles == 2

\* ------------------------------------------------------------ value domains

Conns == {1, 2}

Bases == {"a", "b"}

Names == {ToString(i) : i \in 1..MaxFiles}

LastModifieds == {<<"t1">>}

ETags == {<<"e1">>}

Expiries == {<<"x1">>}

\* 200 is a success, 304 is Not Modified, 400 and 599 are the two ends of
\* the range of error statuses.
Statuses == {200, 304, 400, 599}

None == [some |-> FALSE, v |-> <<>>]

Some(s) == [some |-> TRUE, v |-> s]

Opt(S) == {None} \cup {Some(s) : s \in S}

Null == [kind |-> "Null", v |-> <<>>]

String(s) == [kind |-> "String", v |-> s]

Integer(s) == [kind |-> "Integer", v |-> s]

\* A BLOB: the one non-text, non-null value a column of TEXT affinity keeps
\* as it was inserted.
Binary(s) == [kind |-> "Binary", v |-> s]

\* Response bodies, as byte sequences: the first is a proper prefix of the
\* second.
Bodies == {<<1>>, <<1, 2>>}

\* A URL is its text up to the fragment, and its optional fragment.
Frags == {None, Some(<<"f">>)}

Urls == [base : Bases, frag : Frags]

\* ------------------------------------------------------------------- paths

Root == <<"root">>

Join(p, q) == p \o q

IsPrefix(p, q) == Len(p) <= Len(q) /\ SubSeq(q, 1, Len(p)) = p

StripPrefix(p, base) ==
    IF IsPrefix(base, p)
    THEN [tag |-> "Ok", v |-> SubSeq(p, Len(base) + 1, Len(p))]
    ELSE [tag |-> "Err", v |-> <<>>]

\* -------------------------------------------------------------------- urls

\* Mutant of SetFragmentNone: the fragment stays.
SetFragmentKept(u) == u

SetFragmentNone(u) == [u EXCEPT !.frag = None]

AsStr(u) ==
    IF u.frag.some THEN <<u.base, "#">> \o u.frag.v ELSE <<u.base>>

\* --------------------------------------------------------------- transport

ErrorForStatus(resp) ==
    IF resp.status >= 400 /\ resp.status <= 599
    THEN [tag |-> "Err", kind |-> "Http"]
    ELSE [tag |-> "Ok", resp |-> resp]

Responses ==
    [status : Statuses, last_modified : Opt(LastModifieds),
     etag : Opt(ETags), body : Bodies]

NoResponse == [status |-> 0, last_modified |-> None, etag |-> None, body |-> <<>>]

NoRequest == [method |-> "", url |-> <<>>, if_modified_since |-> None, if_none_match |-> None]

\* ------------------------------------------------------------------- state

VARIABLES
    db,         \* committed rows of table urls: url text -> row
    tx,         \* tx[c]: the transaction open on connection c, with its rows
    files,      \* the filesystem under Root: path -> bytes
    copied,     \* paths whose io::copy returned Ok
    pc,         \* pc[c]: where the Cache::get call of instance c stands
    loc,        \* loc[c]: the locals of that call
    ret,        \* ret[c]: what the last call returned, and how it went
    snap,       \* snap[c]: the store and the files when the call began
    got         \* got[c]: what the last direct call of CacheDB::get returned

vars == <<db, tx, files, copied, pc, loc, ret, snap, got>>

\* ------------------------------------------------------- the metadata store

EmptyMap == [k \in {} |-> Null]

Overlay(f, g) ==
    [k \in DOMAIN f \cup DOMAIN g |-> IF k \in DOMAIN g THEN g[k] ELSE f[k]]

NoTx == [open |-> FALSE, writes |-> EmptyMap]

NoRecord == [path |-> <<>>, last_modified |-> None, etag |-> None, expires |-> None]

\* Mutant of View: a statement also reads the rows that the other
\* connections have written and not committed.
ViewUncommitted(c) ==
    LET Pending(d) == IF tx[d].open THEN tx[d].writes ELSE EmptyMap
    IN  Overlay(Overlay(db, Pending(1)), Pending(2))

\* What a statement run on connection c reads: the committed rows, and the
\* rows written by the transaction open on c itself.
View(c) == IF tx[c].open THEN Overlay(db, tx[c].writes) ELSE db

\* Mutant of OptionalColumn: only NULL is read as None.
OptionalColumnOfAnyType(value) ==
    IF value.kind = "Null" THEN None ELSE Some(value.v)

\* The optional columns of CacheDB::get: text is Some, NULL is None, any
\* other type is logged and read as None.
OptionalColumn(value) ==
    IF value.kind = "String" THEN Some(value.v) ELSE None

\* Mutant of CacheDBGet: a path that is not text is read as the empty path.
CacheDBGetDefaultPath(view, u, fault) ==
    LET url == SetFragmentNone(u)
        key == AsStr(url)
    IN  IF fault = "prepare"
        THEN [tag |-> "Database", rec |-> NoRecord, url |-> url]
        ELSE IF fault = "step" \/ key \notin DOMAIN view
        THEN [tag |-> "URLNotFound", rec |-> NoRecord, url |-> url]
        ELSE [tag |-> "Ok",
              rec |-> [path |-> IF view[key].path.kind = "String"
                                THEN view[key].path.v ELSE <<>>,
                       last_modified |-> OptionalColumn(view[key].last_modified),
                       etag |-> OptionalColumn(view[key].etag),
                       expires |-> OptionalColumn(view[key].expires)],
              url |-> url]

\* Mutant of CacheDBGet: the SELECT has no WHERE clause, and the first row
\* of the table is returned whatever its url.
CacheDBGetFirstRow(view, u, fault) ==
    LET url == SetFragmentNone(u)
        key == IF AsStr(url) \in DOMAIN view \/ DOMAIN view = {} THEN AsStr(url)
               ELSE CHOOSE k \in DOMAIN view : TRUE
    IN  IF fault = "prepare"
        THEN [tag |-> "Database", rec |-> NoRecord, url |-> url]
        ELSE IF fault = "step" \/ key \notin DOMAIN view
        THEN [tag |-> "URLNotFound", rec |-> NoRecord, url |-> url]
        ELSE IF view[key].path.kind # "String"
        THEN [tag |-> "WrongPathType", rec |-> NoRecord, url |-> url]
        ELSE [tag |-> "Ok",
              rec |-> [path |-> view[key].path.v,
                       last_modified |-> OptionalColumn(view[key].last_modified),
                       etag |-> OptionalColumn(view[key].etag),
                       expires |-> OptionalColumn(view[key].expires)],
              url |-> url]

\* CacheDB::get on the rows `view`.  fault is "none", "prepare" (prepare or
\* bind fails: query returns Err) or "step" (the cursor fails: Rows::next
\* logs the error and yields no row).
CacheDBGet(view, u, fault) ==
    LET url == SetFragmentNone(u)
        key == AsStr(url)
    IN  IF fault = "prepare"
        THEN [tag |-> "Database", rec |-> NoRecord, url |-> url]
        ELSE IF fault = "step" \/ key \notin DOMAIN view
        THEN [tag |-> "URLNotFound", rec |-> NoRecord, url |-> url]
        ELSE IF view[key].path.kind # "String"
        THEN [tag |-> "WrongPathType", rec |-> NoRecord, url |-> url]
        ELSE [tag |-> "Ok",
              rec |-> [path |-> view[key].path.v,
                       last_modified |-> OptionalColumn(view[key].last_modified),
                       etag |-> OptionalColumn(view[key].etag),
                       expires |-> OptionalColumn(view[key].expires)],
              url |-> url]

ToColumn(opt) == IF opt.some THEN String(opt.v) ELSE Null

RowOf(record) ==
    [path |-> String(record.path),
     last_modified |-> ToColumn(record.last_modified),
     etag |-> ToColumn(record.etag),
     expires |-> ToColumn(record.expires)]

\* Another connection has written in a transaction it has not ended: it
\* holds the store's write lock, and a write on c fails at its first step.
WriteLocked(c) ==
    \E d \in Conns \ {c} : tx[d].open /\ DOMAIN tx[d].writes # {}

\* How CacheDB::set can go on connection c: BEGIN fails; prepare or bind of
\* the upsert fails; the upsert fails when stepped; all of it succeeds.
SetOutcomes(c) ==
    {"begin", "prepare", "step"} \cup (IF WriteLocked(c) THEN {} ELSE {"ok"})

\* The rows an upsert leaves in the transaction: INSERT OR REPLACE keyed by
\* the url text.  A failure of the step is logged by Rows::next and the
\* loop that exhausts the rows ends: nothing is written.
Upsert(writes, u, record, outcome) ==
    IF outcome = "ok"
    THEN Overlay(writes, [k \in {AsStr(SetFragmentNone(u))} |-> RowOf(record)])
    ELSE writes

\* CacheDB::set: the connection's transaction after the call.  BEGIN fails
\* when a transaction is already open on the connection.
CacheDBSetTx(c, u, record, outcome) ==
    IF outcome = "begin" \/ tx[c].open
    THEN tx[c]
    ELSE IF outcome = "prepare"
    THEN NoTx
    ELSE [open |-> TRUE, writes |-> Upsert(EmptyMap, u, record, outcome)]

\* CacheDB::set: Ok(Transaction) or Err.
CacheDBSetOk(c, outcome) ==
    ~tx[c].open /\ outcome \in {"step", "ok"}

\* Mutant of Rollback: Drop for Transaction does not run ROLLBACK.
RollbackSkipped(t) == t

\* ROLLBACK, as run by Drop for Transaction when commit was not called.
Rollback(t) == NoTx

\* COMMIT can succeed, fail leaving the transaction open ("busy": the
\* ROLLBACK that follows succeeds) or fail having ended it ("io": the
\* ROLLBACK that follows fails too).
CommitOutcomes == {"ok", "busy", "io"}

\* Transaction::commit: the connection's transaction after the call.
CommitTx(c, outcome) ==
    IF outcome = "busy" THEN Rollback(tx[c]) ELSE NoTx

\* Mutant of CommitError: when ROLLBACK fails too, its error is the one
\* returned.
CommitErrorOfRollback(outcome) ==
    IF outcome = "ok" THEN "" ELSE IF outcome = "io" THEN "ROLLBACK" ELSE "COMMIT"

\* Transaction::commit: the statement whose error is returned ("": Ok(())).
\* map_err yields the error of COMMIT in both arms of the match on the
\* result of ROLLBACK.
CommitError(outcome) ==
    IF outcome = "ok" THEN "" ELSE "COMMIT"

\* Transaction::commit: the committed rows after the call.
CommitDb(c, outcome) ==
    IF outcome = "ok" /\ tx[c].open THEN Overlay(db, tx[c].writes) ELSE db

\* ------------------------------------------------------------- the engine

ContentDir == Join(Root, <<"content">>)

FreeNames == {n \in Names : Join(ContentDir, <<n>>) \notin DOMAIN files}

NoUrl == [base |-> "", frag |-> None]

\* arg is the url as the caller passed it, which set_fragment overwrites.
InitLoc ==
    [arg |-> NoUrl, url |-> NoUrl, hit |-> FALSE, rec |-> NoRecord,
     req |-> NoRequest, sent |-> 0, resp |-> NoResponse, path |-> <<>>, n |-> 0]

\* What a call returned (tag, kind, path, data: the bytes read from the
\* returned handle) and how it went: the url looked up, whether the lookup
\* found a record, the request sent, the number of requests sent, the status
\* of the response (0 when there was none), and whether the file returned
\* is the record's ("serve") or the new one ("fetch").
NoRet ==
    [tag |-> "None", kind |-> "", via |-> "", path |-> <<>>, data |-> <<>>,
     url |-> NoUrl, hit |-> FALSE, req |-> NoRequest, sent |-> 0, status |-> 0]

Outcome(l, tag, kind, via, path, data) ==
    [tag |-> tag, kind |-> kind, via |-> via, path |-> path, data |-> data,
     url |-> l.url, hit |-> l.hit, req |-> l.req, sent |-> l.sent,
     status |-> l.resp.status]

Failed(l, kind) == Outcome(l, "Err", kind, "", <<>>, <<>>)

\* Mutant of OpenFile: a missing file is opened as an empty one.
OpenFileOrEmpty(l, path, via) ==
    IF path \in DOMAIN files
    THEN Outcome(l, "Ok", "", via, path, files[path])
    ELSE Outcome(l, "Ok", "", via, path, <<>>)

\* Ok(fs::File::open(path)?) and what the caller reads from the handle.
OpenFile(l, path, via) ==
    IF path \in DOMAIN files
    THEN Outcome(l, "Ok", "", via, path, files[path])
    ELSE Failed(l, "IO")

\* What Client::execute can return: a transport error or a response.
TransportOutcomes ==
    {[tag |-> "Err", resp |-> NoResponse]}
        \cup {[tag |-> "Ok", resp |-> r] : r \in Responses}

\* Mutant of ConditionalRequest: only the etag is sent.
ConditionalRequestEtagOnly(url, rec) ==
    [method |-> "GET", url |-> AsStr(url),
     if_modified_since |-> None, if_none_match |-> rec.etag]

\* The conditional request built from the stored record: a precondition
\* header for each validator the record has.
ConditionalRequest(url, rec) ==
    [method |-> "GET", url |-> AsStr(url),
     if_modified_since |-> rec.last_modified, if_none_match |-> rec.etag]

PlainRequest(url) ==
    [method |-> "GET", url |-> AsStr(url),
     if_modified_since |-> None, if_none_match |-> None]

\* execute(request).and_then(error_for_status)
Validation(out) ==
    IF out.tag = "Err" THEN [tag |-> "Err", kind |-> "Transport"]
    ELSE ErrorForStatus(out.resp)

\* Mutant of AfterRevalidation: a transport failure is returned (execute(..)?).
AfterRevalidationTransportFails(out) ==
    IF out.tag = "Err" THEN "fail"
    ELSE IF Validation(out).tag = "Ok" /\ out.resp.status # 304 THEN "cache"
    ELSE "serve"

\* Mutant of AfterRevalidation: an HTTP error status is returned
\* (error_for_status()?).
AfterRevalidationStatusFails(out) ==
    IF out.tag = "Err" THEN "serve"
    ELSE IF Validation(out).tag = "Err" THEN "fail"
    ELSE IF out.resp.status = 304 THEN "serve" ELSE "cache"

\* Mutant of AfterRevalidation: 304 is not told from the other statuses.
AfterRevalidationNo304(out) ==
    IF Validation(out).tag = "Ok" THEN "cache" ELSE "serve"

\* Mutant of AfterRevalidation: error_for_status is not called, and a
\* response with an error status is cached like any new response.
AfterRevalidationCachesErrors(out) ==
    IF out.tag = "Ok"
    THEN IF out.resp.status = 304 THEN "serve" ELSE "cache"
    ELSE "serve"

\* Where a hit goes after its conditional request: 304 and every failure
\* serve the existing file, any other response is cached.
AfterRevalidation(out) ==
    IF Validation(out).tag = "Ok"
    THEN IF out.resp.status = 304 THEN "serve" ELSE "cache"
    ELSE "serve"

\* Mutant of AfterInitial: error_for_status is not called.
AfterInitialNoStatusCheck(out) ==
    IF out.tag = "Ok" THEN "cache" ELSE "fail"

\* Where a miss goes after its unconditional request: every failure is
\* returned to the caller.
AfterInitial(out) ==
    IF Validation(out).tag = "Ok" THEN "cache" ELSE "fail"

\* What get keeps of the outcome of execute: the whole response when it is
\* the one to cache, and otherwise only the status it looked at.
Kept(out, next) ==
    IF next = "cache" THEN out.resp
    ELSE [NoResponse EXCEPT !.status = out.resp.status]

\* Mutant of RecordOf: a validator the response lacks is carried over from
\* the record that was found.
RecordOfKeepingOld(path, resp) ==
    [path |-> StripPrefix(path, Root).v,
     last_modified |-> IF resp.last_modified.some THEN resp.last_modified
                       ELSE loc[1].rec.last_modified,
     etag |-> IF resp.etag.some THEN resp.etag ELSE loc[1].rec.etag,
     expires |-> None]

\* Mutant of RecordOf: the path of the new file is stored as it is, with
\* the root in front.
RecordOfAbsolutePath(path, resp) ==
    [path |-> path,
     last_modified |-> resp.last_modified,
     etag |-> resp.etag,
     expires |-> None]

\* The record that record_response hands to CacheDB::set.
RecordOf(path, resp) ==
    [path |-> StripPrefix(path, Root).v,
     last_modified |-> resp.last_modified,
     etag |-> resp.etag,
     expires |-> None]

\* The call of instance c returns r: its locals are gone.
Return(c, r) ==
    /\ pc' = [pc EXCEPT ![c] = "done"]
    /\ ret' = [ret EXCEPT ![c] = r]
    /\ loc' = [loc EXCEPT ![c] = InitLoc]
    /\ snap' = [snap EXCEPT ![c] = [db |-> EmptyMap, files |-> EmptyMap]]

\* Mutant of GetLookup: a failure of the lookup other than URLNotFound is
\* returned to the caller.
GetLookupReturnsFailure(c, u, fault) ==
    /\ pc[c] \in {"idle", "done"}
    /\ LET url == SetFragmentNone(u)
           r == CacheDBGet(View(c), url, fault)
           l == [InitLoc EXCEPT !.arg = u, !.url = url,
                                !.hit = (r.tag = "Ok"), !.rec = r.rec]
       IN  IF r.tag \in {"WrongPathType", "Database"}
           THEN Return(c, Failed(l, r.tag))
           ELSE /\ loc' = [loc EXCEPT ![c] = l]
                /\ pc' = [pc EXCEPT ![c] =
                             IF r.tag = "Ok" THEN "revalidate" ELSE "fetch"]
                /\ snap' = [snap EXCEPT ![c] = [db |-> db, files |-> files]]
                /\ ret' = [ret EXCEPT ![c] = NoRet]
    /\ UNCHANGED <<db, tx, files, copied, got>>

\* Cache::get, to the end of the metadata lookup.
GetLookup(c, u, fault) ==
    /\ pc[c] \in {"idle", "done"}
    /\ LET url == SetFragmentNone(u)
           r == CacheDBGet(View(c), url, fault)
       IN  /\ loc' = [loc EXCEPT ![c] =
                        [InitLoc EXCEPT !.arg = u, !.url = url,
                                        !.hit = (r.tag = "Ok"), !.rec = r.rec]]
           /\ pc' = [pc EXCEPT ![c] =
                        IF r.tag = "Ok" THEN "revalidate" ELSE "fetch"]
    /\ snap' = [snap EXCEPT ![c] = [db |-> db, files |-> files]]
    /\ ret' = [ret EXCEPT ![c] = NoRet]
    /\ UNCHANGED <<db, tx, files, copied, got>>

\* Mutant of Proceed: the new response of a revalidation is not kept, and
\* the url is requested again without preconditions.
ProceedRequestsAgain(c, l, out, next) ==
    CASE next = "cache" ->
            /\ loc' = [loc EXCEPT ![c] = l]
            /\ pc' = [pc EXCEPT ![c] = IF l.hit /\ l.sent = 1 THEN "fetch" ELSE "record"]
            /\ UNCHANGED <<ret, snap>>
      [] next = "serve" ->
            Return(c, OpenFile(l, Join(Root, l.rec.path), "serve"))
      [] OTHER ->
            Return(c, Failed(l, Validation(out).kind))

\* Mutant of Proceed: a record whose file is missing is taken for a miss,
\* and the url is requested without preconditions.
ProceedMissingFileIsAMiss(c, l, out, next) ==
    CASE next = "cache" ->
            /\ loc' = [loc EXCEPT ![c] = l]
            /\ pc' = [pc EXCEPT ![c] = "record"]
            /\ UNCHANGED <<ret, snap>>
      [] next = "serve" /\ l.sent = 1 /\ Join(Root, l.rec.path) \notin DOMAIN files ->
            /\ loc' = [loc EXCEPT ![c] = l]
            /\ pc' = [pc EXCEPT ![c] = "fetch"]
            /\ UNCHANGED <<ret, snap>>
      [] next = "serve" ->
            Return(c, OpenFile(l, Join(Root, l.rec.path), "serve"))
      [] OTHER ->
            Return(c, Failed(l, Validation(out).kind))

\* The outcome of execute has arrived: get goes on to cache the response,
\* serves the file of the record it found, or returns the failure.
Proceed(c, l, out, next) ==
    CASE next = "cache" ->
            /\ loc' = [loc EXCEPT ![c] = l]
            /\ pc' = [pc EXCEPT ![c] = "record"]
            /\ UNCHANGED <<ret, snap>>
      [] next = "serve" ->
            Return(c, OpenFile(l, Join(Root, l.rec.path), "serve"))
      [] OTHER ->
            Return(c, Failed(l, Validation(out).kind))

\* Cache::get on a hit: the conditional request and what its outcome
\* leads to.
SendRevalidation(c, out) ==
    /\ pc[c] = "revalidate"
    /\ AfterRevalidation(out) = "cache" => FreeNames # {}
    /\ Proceed(c, [loc[c] EXCEPT
                     !.req = ConditionalRequest(loc[c].url, loc[c].rec),
                     !.sent = loc[c].sent + 1,
                     !.resp = Kept(out, AfterRevalidation(out))],
               out, AfterRevalidation(out))
    /\ UNCHANGED <<db, tx, files, copied, got>>

\* Cache::get on a miss: the unconditional request.
SendInitial(c, out) ==
    /\ pc[c] = "fetch"
    /\ AfterInitial(out) = "cache" => FreeNames # {}
    /\ Proceed(c, [loc[c] EXCEPT
                     !.req = PlainRequest(loc[c].url),
                     !.sent = loc[c].sent + 1,
                     !.resp = Kept(out, AfterInitial(out))],
               out, AfterInitial(out))
    /\ UNCHANGED <<db, tx, files, copied, got>>

\* Mutant of MakeRandomFile: the file is opened with create(true) and
\* truncate(true), so that a name that is taken is opened and returned.
MakeRandomFileOpensExisting(c, name, io) ==
    /\ pc[c] = "record"
    /\ LET new_path == Join(ContentDir, <<name>>)
       IN  IF io = "err"
           THEN /\ Return(c, Failed(loc[c], "IO"))
                /\ UNCHANGED files
           ELSE /\ files' = Overlay(files, [p \in {new_path} |-> <<>>])
                /\ loc' = [loc EXCEPT ![c].path = new_path]
                /\ pc' = [pc EXCEPT ![c] = "set"]
                /\ UNCHANGED <<ret, snap>>
    /\ UNCHANGED <<db, tx, copied, got>>

\* Mutant of MakeRandomFile: the loop does not return the file it has
\* created, and goes on to draw another name.
MakeRandomFileKeepsLooping(c, name, io) ==
    /\ pc[c] = "record"
    /\ LET new_path == Join(ContentDir, <<name>>)
       IN  IF io = "err"
           THEN /\ Return(c, Failed(loc[c], "IO"))
                /\ UNCHANGED files
           ELSE IF new_path \in DOMAIN files
           THEN UNCHANGED <<pc, ret, files, loc, snap>>
           ELSE /\ files' = Overlay(files, [p \in {new_path} |-> <<>>])
                /\ UNCHANGED <<pc, loc, ret, snap>>
    /\ UNCHANGED <<db, tx, copied, got>>

\* record_response, to the end of make_random_file: one turn of its loop.
\* io is "err" when creating the directory or the file fails for a reason
\* other than the name being taken.
MakeRandomFile(c, name, io) ==
    /\ pc[c] = "record"
    /\ LET new_path == Join(ContentDir, <<name>>)
       IN  IF io = "err"
           THEN /\ Return(c, Failed(loc[c], "IO"))
                /\ UNCHANGED files
           ELSE IF new_path \in DOMAIN files
           THEN UNCHANGED <<pc, ret, files, loc, snap>>
           ELSE /\ files' = Overlay(files, [p \in {new_path} |-> <<>>])
                /\ loc' = [loc EXCEPT ![c].path = new_path]
                /\ pc' = [pc EXCEPT ![c] = "set"]
                /\ UNCHANGED <<ret, snap>>
    /\ UNCHANGED <<db, tx, copied, got>>

\* record_response, from strip_prefix on: CacheDB::set for the new file.
RecordResponse(c, outcome) ==
    /\ pc[c] = "set"
    /\ outcome \in SetOutcomes(c)
    /\ tx' = [tx EXCEPT ![c] =
                CacheDBSetTx(c, loc[c].url, RecordOf(loc[c].path, loc[c].resp),
                             outcome)]
    /\ IF StripPrefix(loc[c].path, Root).tag = "Ok" /\ CacheDBSetOk(c, outcome)
       THEN /\ pc' = [pc EXCEPT ![c] = "copy"]
            /\ UNCHANGED <<ret, loc, snap>>
       ELSE Return(c, Failed(loc[c], "Database"))
    /\ UNCHANGED <<db, files, copied, got>>

\* io::copy: one more byte of the body reaches the file, or the body has
\* ended and the copy returns Ok.
CopyStep(c) ==
    /\ pc[c] = "copy"
    /\ IF loc[c].n < Len(loc[c].resp.body)
       THEN /\ files' = [files EXCEPT ![loc[c].path] =
                            Append(@, loc[c].resp.body[loc[c].n + 1])]
            /\ loc' = [loc EXCEPT ![c].n = loc[c].n + 1]
            /\ UNCHANGED <<pc, copied>>
       ELSE /\ copied' = copied \cup {loc[c].path}
            /\ pc' = [pc EXCEPT ![c] = "commit"]
            /\ UNCHANGED <<files, loc>>
    /\ UNCHANGED <<db, tx, ret, snap, got>>

\* Mutant of CopyFail: the dropped Transaction commits instead of rolling
\* back.
CopyFailCommits(c, side) ==
    /\ pc[c] = "copy"
    /\ db' = CommitDb(c, "ok")
    /\ tx' = [tx EXCEPT ![c] = NoTx]
    /\ Return(c, Failed(loc[c], side))
    /\ UNCHANGED <<files, copied, got>>

\* Mutant of CopyFail: the result of io::copy is not looked at.
CopyFailIgnored(c, side) ==
    /\ pc[c] = "copy"
    /\ pc' = [pc EXCEPT ![c] = "commit"]
    /\ UNCHANGED <<db, tx, files, copied, loc, ret, snap, got>>

\* Mutant of CopyFail: the Transaction is not dropped, and stays open.
CopyFailLeavesTx(c, side) ==
    /\ pc[c] = "copy"
    /\ Return(c, Failed(loc[c], side))
    /\ UNCHANGED <<db, tx, files, copied, got>>

\* io::copy fails, reading the body from the network (side "Read") or
\* writing the file (side "Write"): get returns the io::Error and the
\* Transaction is dropped.
CopyFail(c, side) ==
    /\ pc[c] = "copy"
    /\ tx' = [tx EXCEPT ![c] = Rollback(tx[c])]
    /\ Return(c, Failed(loc[c], side))
    /\ UNCHANGED <<db, files, copied, got>>

\* Mutant of Commit: once the new record is committed, the file of the
\* record it supersedes is removed.
CommitRemovesSuperseded(c, outcome) ==
    /\ pc[c] = "commit"
    /\ db' = CommitDb(c, outcome)
    /\ tx' = [tx EXCEPT ![c] = CommitTx(c, outcome)]
    /\ files' = IF outcome = "ok" /\ loc[c].hit
                THEN [p \in DOMAIN files \ {Join(Root, loc[c].rec.path)} |-> files[p]]
                ELSE files
    /\ IF outcome = "ok"
       THEN /\ pc' = [pc EXCEPT ![c] = "open"]
            /\ UNCHANGED <<ret, loc, snap>>
       ELSE Return(c, Failed(loc[c], "Database"))
    /\ UNCHANGED <<copied, got>>

\* trans.commit(): COMMIT makes the rows of the transaction the committed
\* ones and ends it; when it fails, get returns its error.
Commit(c, outcome) ==
    /\ pc[c] = "commit"
    /\ db' = CommitDb(c, outcome)
    /\ tx' = [tx EXCEPT ![c] = CommitTx(c, outcome)]
    /\ IF outcome = "ok"
       THEN /\ pc' = [pc EXCEPT ![c] = "open"]
            /\ UNCHANGED <<ret, loc, snap>>
       ELSE Return(c, Failed(loc[c], "Database"))
    /\ UNCHANGED <<files, copied, got>>

\* Ok(fs::File::open(&path)?) after the commit: get returns the new file.
OpenFetched(c) ==
    /\ pc[c] = "open"
    /\ Return(c, OpenFile(loc[c], loc[c].path, "fetch"))
    /\ UNCHANGED <<db, tx, files, copied, got>>

\* Mutant of Crash: the rows of the open transaction survive the crash.
CrashCommits(c) ==
    /\ pc[c] \in {"revalidate", "fetch", "record", "set", "copy", "commit", "open"}
    /\ db' = CommitDb(c, "ok")
    /\ tx' = [tx EXCEPT ![c] = NoTx]
    /\ pc' = [pc EXCEPT ![c] = "idle"]
    /\ ret' = [ret EXCEPT ![c] =
                 [NoRet EXCEPT !.tag = "Crashed", !.kind = pc[c],
                               !.url = loc[c].url, !.path = loc[c].path]]
    /\ loc' = [loc EXCEPT ![c] = InitLoc]
    /\ UNCHANGED <<files, copied, snap, got>>

\* The process of instance c stops in the middle of a call of get, at any
\* point up to its return (after COMMIT too): the files and the committed
\* rows stay as they are, and the transaction it had open is rolled back
\* when the store is next opened.  ret keeps where the call stood, its url
\* and its new file; snap still holds the store as the call found it.
Crash(c) ==
    /\ pc[c] \in {"revalidate", "fetch", "record", "set", "copy", "commit", "open"}
    /\ tx' = [tx EXCEPT ![c] = NoTx]
    /\ pc' = [pc EXCEPT ![c] = "idle"]
    /\ ret' = [ret EXCEPT ![c] =
                 [NoRet EXCEPT !.tag = "Crashed", !.kind = pc[c],
                               !.url = loc[c].url, !.path = loc[c].path]]
    /\ loc' = [loc EXCEPT ![c] = InitLoc]
    /\ UNCHANGED <<db, files, copied, snap, got>>

\* ------------------------------------------ the metadata store, used directly

\* The records a caller of CacheDB::set can pass.
Records ==
    [path : {<<"content", n>> : n \in Names},
     last_modified : Opt(LastModifieds), etag : Opt(ETags),
     expires : Opt(Expiries)]

\* The calls of CacheDB::set: any record for the urls of base "a", and one
\* record for the urls of the other base.
SetInputs ==
    {in \in Urls \X Records :
        in[1].base = "a"
            \/ in[2] = [path |-> <<"content", "1">>, last_modified |-> None,
                        etag |-> Some(<<"e1">>), expires |-> None]}

NoGot == [tag |-> "None", rec |-> NoRecord, url |-> NoUrl]

\* db.set(u, record): on Ok the caller holds the Transaction.  loc keeps
\* the arguments, ret how the call went, snap the rows before it.
DbSet(c, u, record, outcome) ==
    /\ pc[c] = "idle"
    /\ outcome \in SetOutcomes(c)
    /\ tx' = [tx EXCEPT ![c] = CacheDBSetTx(c, u, record, outcome)]
    /\ pc' = [pc EXCEPT ![c] = IF CacheDBSetOk(c, outcome) THEN "handle" ELSE "idle"]
    /\ loc' = [loc EXCEPT ![c] =
                 [InitLoc EXCEPT !.url = SetFragmentNone(u), !.rec = record]]
    /\ ret' = [ret EXCEPT ![c] =
                 [NoRet EXCEPT !.tag = IF CacheDBSetOk(c, outcome) THEN "Set" ELSE "Err",
                               !.kind = outcome]]
    /\ snap' = [snap EXCEPT ![c] = [db |-> db, files |-> files]]
    /\ got' = [got EXCEPT ![c] = NoGot]
    /\ UNCHANGED <<db, files, copied>>

\* trans.commit(): ret keeps how COMMIT went and the error returned.
DbCommit(c, outcome) ==
    /\ pc[c] = "handle"
    /\ db' = CommitDb(c, outcome)
    /\ tx' = [tx EXCEPT ![c] = CommitTx(c, outcome)]
    /\ pc' = [pc EXCEPT ![c] = "idle"]
    /\ ret' = [ret EXCEPT ![c].tag = IF outcome = "ok" THEN "Committed" ELSE "Err",
                          ![c].kind = outcome,
                          ![c].via = CommitError(outcome)]
    /\ UNCHANGED <<files, copied, loc, snap, got>>

\* The Transaction goes out of scope without commit(): Drop for Transaction.
DbDrop(c) ==
    /\ pc[c] = "handle"
    /\ tx' = [tx EXCEPT ![c] = Rollback(tx[c])]
    /\ pc' = [pc EXCEPT ![c] = "idle"]
    /\ ret' = [ret EXCEPT ![c].tag = "Dropped"]
    /\ UNCHANGED <<db, files, copied, loc, snap, got>>

\* db.get(u): got keeps what it returned, loc the url that was passed, ret
\* how the query went.
DbGet(c, u, fault) ==
    /\ pc[c] = "idle"
    /\ got' = [got EXCEPT ![c] = CacheDBGet(View(c), u, fault)]
    /\ loc' = [loc EXCEPT ![c] = [InitLoc EXCEPT !.arg = u]]
    /\ ret' = [ret EXCEPT ![c] = [NoRet EXCEPT !.tag = "Got", !.kind = fault]]
    /\ snap' = [snap EXCEPT ![c] = [db |-> EmptyMap, files |-> EmptyMap]]
    /\ UNCHANGED <<db, tx, files, copied, pc>>

\* ------------------------------------------- rows written past CacheDB::set

\* The rows an INSERT run on the connection itself can leave in table urls:
\* path is NOT NULL, and each column holds a text, or a BLOB, or (but for
\* path) NULL.
RawRows ==
    [path : {String(<<"content", "1">>), Binary(<<"abc">>)},
     last_modified : {Null, String(<<"t1">>), Binary(<<"abc">>)},
     etag : {Null, String(<<"e1">>), Binary(<<"def">>)},
     expires : {Null, String(<<"x1">>), Binary(<<"ghi">>)}]

\* conn.execute("INSERT INTO urls ... VALUES (key, ...)") outside any
\* transaction: url is UNIQUE, so the key must be new.
RawInsert(c, key, row) ==
    /\ pc[c] \in {"idle", "done"}
    /\ ~tx[c].open
    /\ ~WriteLocked(c)
    /\ key \notin DOMAIN db
    /\ db' = Overlay(db, [k \in {key} |-> row])
    /\ pc' = [pc EXCEPT ![c] = "idle"]
    /\ loc' = [loc EXCEPT ![c] = InitLoc]
    /\ ret' = [ret EXCEPT ![c] = NoRet]
    /\ snap' = [snap EXCEPT ![c] = [db |-> EmptyMap, files |-> EmptyMap]]
    /\ got' = [got EXCEPT ![c] = NoGot]
    /\ UNCHANGED <<tx, files, copied>>

\* ---------------------------------------------------------- opening a store

\* The database file of the store, root.join("cache.db"): its contents here
\* are the names of the tables listed in sqlite_master.
DbFile == Join(Root, <<"cache.db">>)

Master == IF DbFile \in DOMAIN files THEN files[DbFile] ELSE <<>>

\* The records and urls used on a store opened by two handles.
NewInputs ==
    {<<u, r>> \in Urls \X Records :
        /\ u.base = "a"
        /\ r.path = <<"content", "1">>
        /\ r.last_modified = None
        /\ r.expires = None}

\* Cache::new / CacheDB::new, to the end of the count of sqlite_master:
\* the root is created if missing, the connection is opened (which creates
\* the database file if missing) and the tables are counted.  io is "err"
\* when the directory cannot be created or canonicalized (an io::Error),
\* "open" when Connection::open fails and "count" when the query of the
\* count fails (the store is locked, or the file is not a database): both
\* are an Error::Database.  io is "panic" when the cursor of the count
\* fails at its step (the store is locked by a handle that writes): the
\* error is logged by Rows::next, no row is collected and rows[0][0]
\* panics, so that the call returns nothing.
NewOpen(c, io) ==
    /\ pc[c] = "closed"
    /\ IF io = "err"
       THEN /\ ret' = [ret EXCEPT ![c] = [NoRet EXCEPT !.tag = "Err", !.kind = "IO"]]
            /\ UNCHANGED <<files, pc, loc>>
       ELSE IF io = "open"
       THEN /\ ret' = [ret EXCEPT ![c] =
                         [NoRet EXCEPT !.tag = "Err", !.kind = "Database", !.via = "open"]]
            /\ UNCHANGED <<files, pc, loc>>
       ELSE IF io = "count"
       THEN /\ files' = IF DbFile \in DOMAIN files THEN files
                         ELSE Overlay(files, [p \in {DbFile} |-> <<>>])
            /\ ret' = [ret EXCEPT ![c] =
                         [NoRet EXCEPT !.tag = "Err", !.kind = "Database", !.via = "count"]]
            /\ UNCHANGED <<pc, loc>>
       ELSE IF io = "panic"
       THEN /\ files' = IF DbFile \in DOMAIN files THEN files
                         ELSE Overlay(files, [p \in {DbFile} |-> <<>>])
            /\ ret' = [ret EXCEPT ![c] =
                         [NoRet EXCEPT !.tag = "Panic", !.kind = "IndexOutOfBounds",
                                       !.via = "count"]]
            /\ UNCHANGED <<pc, loc>>
       ELSE /\ files' = IF DbFile \in DOMAIN files THEN files
                         ELSE Overlay(files, [p \in {DbFile} |-> <<>>])
            /\ loc' = [loc EXCEPT ![c] = [InitLoc EXCEPT !.n = Len(Master)]]
            /\ pc' = [pc EXCEPT ![c] = "schema"]
            /\ ret' = [ret EXCEPT ![c] = NoRet]
    /\ UNCHANGED <<db, tx, copied, snap, got>>

\* Mutant of NewSchema: the schema is loaded on every open, over the tables
\* that are there.
NewSchemaAlways(c, io) ==
    /\ pc[c] = "schema"
    /\ files' = [files EXCEPT ![DbFile] = <<"urls">>]
    /\ db' = EmptyMap
    /\ pc' = [pc EXCEPT ![c] = "idle"]
    /\ ret' = [ret EXCEPT ![c] = [NoRet EXCEPT !.tag = "New", !.kind = "created"]]
    /\ loc' = [loc EXCEPT ![c] = InitLoc]
    /\ snap' = [snap EXCEPT ![c] = [db |-> db, files |-> files]]
    /\ UNCHANGED <<tx, copied, got>>

\* CacheDB::new, from the test of the count on: when no table was counted,
\* SCHEMA_SQL is executed.  It fails when the store cannot be written (io
\* is "err": another handle holds a lock, or the write fails), which leaves
\* the tables as they are, and CREATE TABLE urls fails when the table is
\* there by now.  snap keeps the rows and the files before the step.
NewSchema(c, io) ==
    /\ pc[c] = "schema"
    /\ IF loc[c].n # 0
       THEN /\ pc' = [pc EXCEPT ![c] = "idle"]
            /\ ret' = [ret EXCEPT ![c] = [NoRet EXCEPT !.tag = "New", !.kind = "reused"]]
            /\ UNCHANGED <<files, db>>
       ELSE IF io = "err"
       THEN /\ pc' = [pc EXCEPT ![c] = "closed"]
            /\ ret' = [ret EXCEPT ![c] =
                         [NoRet EXCEPT !.tag = "Err", !.kind = "Database", !.via = "schema"]]
            /\ UNCHANGED <<files, db>>
       ELSE IF Master # <<>>
       THEN /\ pc' = [pc EXCEPT ![c] = "closed"]
            /\ ret' = [ret EXCEPT ![c] =
                         [NoRet EXCEPT !.tag = "Err", !.kind = "Database", !.via = "exists"]]
            /\ UNCHANGED <<files, db>>
       ELSE /\ files' = [files EXCEPT ![DbFile] = <<"urls">>]
            /\ db' = EmptyMap
            /\ pc' = [pc EXCEPT ![c] = "idle"]
            /\ ret' = [ret EXCEPT ![c] = [NoRet EXCEPT !.tag = "New", !.kind = "created"]]
    /\ loc' = [loc EXCEPT ![c] = InitLoc]
    /\ snap' = [snap EXCEPT ![c] = [db |-> db, files |-> files]]
    /\ UNCHANGED <<tx, copied, got>>

\* ------------------------------------------------------------ specification

Init ==
    /\ db = EmptyMap
    /\ tx = [c \in Conns |-> NoTx]
    /\ files = EmptyMap
    /\ copied = {}
    /\ pc = [c \in Conns |-> "idle"]
    /\ loc = [c \in Conns |-> InitLoc]
    /\ ret = [c \in Conns |-> NoRet]
    /\ snap = [c \in Conns |-> [db |-> EmptyMap, files |-> EmptyMap]]
    /\ got = [c \in Conns |-> NoGot]

\* One Cache instance on the root.
Next ==
    \/ \E u \in Urls, fault \in {"none", "prepare", "step"} : GetLookup(1, u, fault)
    \/ \E out \in TransportOutcomes : SendRevalidation(1, out)
    \/ \E out \in TransportOutcomes : SendInitial(1, out)
    \/ \E name \in Names, io \in {"ok", "err"} : MakeRandomFile(1, name, io)
    \/ \E outcome \in {"begin", "prepare", "step", "ok"} : RecordResponse(1, outcome)
    \/ CopyStep(1)
    \/ \E side \in {"Read", "Write"} : CopyFail(1, side)
    \/ \E outcome \in CommitOutcomes : Commit(1, outcome)
    \/ OpenFetched(1)

Spec == Init /\ [][Next]_vars

\* One CacheDB, used directly.
NextDB ==
    \/ \E in \in SetInputs, outcome \in {"begin", "prepare", "step", "ok"} :
            DbSet(1, in[1], in[2], outcome)
    \/ \E outcome \in CommitOutcomes : DbCommit(1, outcome)
    \/ DbDrop(1)
    \/ \E u \in Urls, fault \in {"none", "prepare", "step"} : DbGet(1, u, fault)

SpecDB == Init /\ [][NextDB]_vars

\* One CacheDB read directly, over rows inserted past CacheDB::set: any row
\* for the url "a", one for the url "b".
NextRawDB ==
    \/ \E row \in RawRows : RawInsert(1, <<"a">>, row)
    \/ RawInsert(1, <<"b">>,
                 [path |-> Binary(<<"abc">>), last_modified |-> Null,
                  etag |-> String(<<"e1">>), expires |-> Null])
    \/ \E u \in Urls, fault \in {"none", "prepare", "step"} : DbGet(1, u, fault)

SpecRawDB == Init /\ [][NextRawDB]_vars

\* One Cache instance asked for the urls of base "a", on a root whose store
\* may hold a row for "a" inserted past CacheDB::set (with no expires).
NextRaw ==
    \/ \E row \in {r \in RawRows : r.last_modified = Null /\ r.expires = Null} :
            RawInsert(1, <<"a">>, row)
    \/ \E u \in {v \in Urls : v.base = "a"}, fault \in {"none", "prepare", "step"} :
            GetLookup(1, u, fault)
    \/ \E out \in TransportOutcomes : SendRevalidation(1, out)
    \/ \E out \in TransportOutcomes : SendInitial(1, out)
    \/ \E name \in Names, io \in {"ok", "err"} : MakeRandomFile(1, name, io)
    \/ \E outcome \in {"begin", "prepare", "step", "ok"} : RecordResponse(1, outcome)
    \/ CopyStep(1)
    \/ \E side \in {"Read", "Write"} : CopyFail(1, side)
    \/ \E outcome \in CommitOutcomes : Commit(1, outcome)
    \/ OpenFetched(1)

SpecRaw == Init /\ [][NextRaw]_vars

\* What the transport returns to two instances that ask for one url: a
\* failure, or a response with no validators and a one-byte body.
SharedOutcomes ==
    {out \in TransportOutcomes :
        out.tag = "Ok" =>
            /\ out.resp.status \in {200, 304}
            /\ out.resp.last_modified = None
            /\ out.resp.etag = None
            /\ out.resp.body = <<1>>}

\* Two Cache instances on one root, each with its own connection, whose
\* calls of get for the url "a" interleave.  A lookup can fail, on the lock
\* the other instance holds among other reasons.
NextShared ==
    \/ \E c \in Conns, fault \in {"none", "prepare", "step"} :
            GetLookup(c, [base |-> "a", frag |-> None], fault)
    \/ \E c \in Conns, out \in SharedOutcomes : SendRevalidation(c, out)
    \/ \E c \in Conns, out \in SharedOutcomes : SendInitial(c, out)
    \/ \E c \in Conns, name \in Names, io \in {"ok", "err"} : MakeRandomFile(c, name, io)
    \/ \E c \in Conns, outcome \in {"begin", "prepare", "step", "ok"} :
            RecordResponse(c, outcome)
    \/ \E c \in Conns : CopyStep(c)
    \/ \E c \in Conns, side \in {"Read", "Write"} : CopyFail(c, side)
    \/ \E c \in Conns, outcome \in CommitOutcomes : Commit(c, outcome)
    \/ \E c \in Conns : OpenFetched(c)

SpecShared == Init /\ [][NextShared]_vars

\* Statuses on both sides of 304 and of the range of error statuses.
WideStatuses == {200, 204, 303, 304, 305, 399, 400, 599}

\* What the transport returns for one url: a failure, or a response with
\* any of these statuses, an ETag or none, and a two-byte body.
WideOutcomes ==
    {[tag |-> "Err", resp |-> NoResponse]}
        \cup {[tag |-> "Ok",
               resp |-> [status |-> st, last_modified |-> None, etag |-> et,
                         body |-> <<1, 2>>]] :
                 st \in WideStatuses, et \in Opt(ETags)}

\* One Cache instance asked for the url "a", whose process can stop in the
\* middle of a call and start again.
NextWide ==
    \/ GetLookup(1, [base |-> "a", frag |-> None], "none")
    \/ \E out \in WideOutcomes : SendRevalidation(1, out)
    \/ \E out \in WideOutcomes : SendInitial(1, out)
    \/ \E name \in Names, io \in {"ok", "err"} : MakeRandomFile(1, name, io)
    \/ \E outcome \in {"begin", "prepare", "step", "ok"} : RecordResponse(1, outcome)
    \/ CopyStep(1)
    \/ \E side \in {"Read", "Write"} : CopyFail(1, side)
    \/ \E outcome \in CommitOutcomes : Commit(1, outcome)
    \/ OpenFetched(1)
    \/ Crash(1)

SpecWide == Init /\ [][NextWide]_vars

\* One Cache instance asked for the url "a", whose calls are not cut short.
NextLive ==
    \/ GetLookup(1, [base |-> "a", frag |-> None], "none")
    \/ \E out \in WideOutcomes : SendRevalidation(1, out)
    \/ \E out \in WideOutcomes : SendInitial(1, out)
    \/ \E name \in Names, io \in {"ok", "err"} : MakeRandomFile(1, name, io)
    \/ \E outcome \in {"begin", "prepare", "step", "ok"} : RecordResponse(1, outcome)
    \/ CopyStep(1)
    \/ \E side \in {"Read", "Write"} : CopyFail(1, side)
    \/ \E outcome \in CommitOutcomes : Commit(1, outcome)
    \/ OpenFetched(1)

\* What the thread that runs get does next when nothing fails under it:
\* execute returns, with a response or an error; create_new is tried on a
\* name that is drawn; set, a read and write of io::copy, and commit
\* return.
Progress(c) ==
    \/ \E out \in WideOutcomes : SendRevalidation(c, out)
    \/ \E out \in WideOutcomes : SendInitial(c, out)
    \/ \E name \in Names : MakeRandomFile(c, name, "ok")
    \/ \E outcome \in {"begin", "prepare", "step", "ok"} : RecordResponse(c, outcome)
    \/ CopyStep(c)
    \/ \E outcome \in CommitOutcomes : Commit(c, outcome)
    \/ OpenFetched(c)

\* get runs on the caller's thread, which goes on to its next statement,
\* and the transport and the body stream answer: a step of the call that
\* can change the state is taken in the end.  The names drawn in
\* make_random_file are random, so a name that is free is drawn in the end.
SpecLive == Init /\ [][NextLive]_vars /\ WF_vars(Progress(1))

\* A root that does not exist yet, and no instance constructed.
InitNew ==
    /\ db = EmptyMap
    /\ tx = [c \in Conns |-> NoTx]
    /\ files = EmptyMap
    /\ copied = {}
    /\ pc = [c \in Conns |-> "closed"]
    /\ loc = [c \in Conns |-> InitLoc]
    /\ ret = [c \in Conns |-> NoRet]
    /\ snap = [c \in Conns |-> [db |-> EmptyMap, files |-> EmptyMap]]
    /\ got = [c \in Conns |-> NoGot]

\* Two handles opened on one store, in any interleaving; the first writes
\* and reads, the second reads.
NextNew ==
    \/ \E c \in Conns, io \in {"ok", "err", "open", "count", "panic"} : NewOpen(c, io)
    \/ \E c \in Conns, io \in {"ok", "err"} : NewSchema(c, io)
    \/ \E in \in NewInputs, outcome \in {"begin", "prepare", "step", "ok"} :
            DbSet(1, in[1], in[2], outcome)
    \/ \E outcome \in CommitOutcomes : DbCommit(1, outcome)
    \/ DbDrop(1)
    \/ \E c \in Conns, u \in {v \in Urls : v.base = "a"},
          fault \in {"none", "prepare", "step"} : DbGet(c, u, fault)

SpecNew == InitNew /\ [][NextNew]_vars

\* ------------------------------------------------------------------ claims

\* The key of the url the call of instance c is, or was, about.
KeyOf(c) == AsStr(IF pc[c] = "done" THEN ret[c].url ELSE loc[c].url)

\* The status of the response the call of instance c got (0: none).
Arrived(c) == IF pc[c] = "done" THEN ret[c].status ELSE loc[c].resp.status

\* The file of the record the lookup of instance c found.
RecordFile(c) == Join(Root, loc[c].rec.path)

ErrorStatuses == 400..599

\* C1: when a Transaction returned by CacheDB::set is dropped without
\* commit, the committed rows are those of before the set, and CacheDB::get
\* returns for every url (that of the set and all others) what it would have
\* returned before the set: URLNotFound or the previous record.
C1_DropLeavesStoreAsBefore ==
    ret[1].tag = "Dropped" =>
        /\ db = snap[1].db
        /\ \A u \in Urls :
              CacheDBGet(View(1), u, "none") = CacheDBGet(snap[1].db, u, "none")

\* A set that wrote a record differing from the committed one was dropped,
\* with both urls recorded.
C1_Witness ==
    /\ ret[1].tag = "Dropped"
    /\ ret[1].kind = "ok"
    /\ DOMAIN db = {<<"a">>, <<"b">>}
    /\ db[AsStr(loc[1].url)] # RowOf(loc[1].rec)

\* C2: every committed record's path is text naming a file that exists under
\* the root and whose io::copy had returned Ok (copied is only ever extended
\* by the end of a copy, and Commit does not change it).
C2_CommittedRecordsNameCompleteFiles ==
    \A k \in DOMAIN db :
        /\ db[k].path.kind = "String"
        /\ IsPrefix(Root, Join(Root, db[k].path.v))
        /\ Join(Root, db[k].path.v) \in DOMAIN files
        /\ Join(Root, db[k].path.v) \in copied

\* A get has just failed in its body copy, leaving an incomplete file, while
\* a record committed by an earlier get is in the store.
C2_Witness ==
    /\ pc[1] = "done"
    /\ ret[1].kind \in {"Read", "Write"}
    /\ DOMAIN db # {}
    /\ DOMAIN files \ copied # {}

\* C3: whenever get returned Ok, the file it returned is completely written
\* and no transaction is open; returned as the new file, its copy and the
\* commit are over; returned as the existing file, it is the file of the
\* committed record of the url.
C3_NeverReturnsPartialFile ==
    (pc[1] = "done" /\ ret[1].tag = "Ok") =>
        /\ ret[1].path \in copied
        /\ ret[1].path \in DOMAIN files
        /\ ret[1].data = files[ret[1].path]
        /\ ~tx[1].open
        /\ ret[1].via \in {"serve", "fetch"}
        /\ ret[1].via = "serve" =>
              /\ KeyOf(1) \in DOMAIN db
              /\ ret[1].path = Join(Root, db[KeyOf(1)].path.v)

\* get returned the two bytes of a new file while an incomplete file of an
\* earlier failed copy lies in the content directory.
C3_Witness ==
    /\ pc[1] = "done"
    /\ ret[1].tag = "Ok"
    /\ ret[1].via = "fetch"
    /\ ret[1].data = <<1, 2>>
    /\ DOMAIN files \ copied # {}

\* C4: on a hit whose file exists, when the transport fails on the
\* revalidation request, the call returns Ok with the bytes of the record's
\* file, and the files are as they were.
C4_TransportFailureServesCache ==
    [][(/\ pc[1] = "revalidate"
        /\ pc'[1] # "revalidate"
        /\ Arrived(1)' = 0
        /\ RecordFile(1) \in DOMAIN files)
       => (/\ pc'[1] = "done"
           /\ ret'[1].tag = "Ok"
           /\ ret'[1].path = RecordFile(1)
           /\ ret'[1].data = files[RecordFile(1)]
           /\ files' = files
           /\ files = snap[1].files)]_vars

\* A revalidation whose transport failed returned the two cached bytes.
C4_Witness ==
    /\ pc[1] = "done"
    /\ ret[1].hit
    /\ ret[1].sent = 1
    /\ ret[1].status = 0
    /\ ret[1].tag = "Ok"
    /\ ret[1].data = <<1, 2>>

\* C5: on a hit, when the revalidation response has an error status
\* (400-599), the call returns Ok with the record's file, not the error,
\* and the committed rows are those of before the call.
C5_HttpErrorServesCache ==
    [][(/\ pc[1] = "revalidate"
        /\ pc'[1] # "revalidate"
        /\ Arrived(1)' \in ErrorStatuses)
       => (/\ pc'[1] = "done"
           /\ ret'[1].tag = "Ok"
           /\ ret'[1].via = "serve"
           /\ ret'[1].path = RecordFile(1)
           /\ ret'[1].data = files[RecordFile(1)]
           /\ db' = db
           /\ db = snap[1].db)]_vars

\* A revalidation answered 599 returned the cached bytes.
C5_Witness ==
    /\ pc[1] = "done"
    /\ ret[1].hit
    /\ ret[1].status = 599
    /\ ret[1].tag = "Ok"
    /\ ret[1].via = "serve"
    /\ ret[1].data = <<1, 2>>

\* C6: on a hit, when the revalidation response is 304, the call returns Ok
\* with the bytes of the record's file, and it has written no metadata: the
\* committed rows are those of before the call, no transaction was opened
\* and no file was created.
C6_NotModifiedServesCache ==
    [][(/\ pc[1] = "revalidate"
        /\ pc'[1] # "revalidate"
        /\ Arrived(1)' = 304)
       => (/\ pc'[1] = "done"
           /\ ret'[1].tag = "Ok"
           /\ ret'[1].via = "serve"
           /\ ret'[1].path = RecordFile(1)
           /\ ret'[1].data = files[RecordFile(1)]
           /\ db' = db
           /\ db = snap[1].db
           /\ tx' = tx
           /\ files' = files
           /\ files = snap[1].files)]_vars

\* A revalidation answered 304 returned the cached bytes.
C6_Witness ==
    /\ pc[1] = "done"
    /\ ret[1].hit
    /\ ret[1].status = 304
    /\ ret[1].tag = "Ok"
    /\ ret[1].via = "serve"
    /\ ret[1].data = <<1, 2>>
    /\ ret[1].req.if_none_match = Some(<<"e1">>)

\* C7 (as claimed): when a get on a hit caches the new response of its
\* revalidation and returns Ok, it returns the new body, and the record of
\* the url is replaced by one made of the new file and the validators of
\* that response, so that the next lookup builds its request from them.
C7_RevalidationReplacesRecord ==
    [][(/\ pc[1] = "open"
        /\ loc[1].hit
        /\ pc'[1] = "done"
        /\ ret'[1].tag = "Ok")
       => (/\ ret'[1].data = loc[1].resp.body
           /\ CacheDBGet(db', loc[1].url, "none")
                = [tag |-> "Ok", rec |-> RecordOf(loc[1].path, loc[1].resp),
                   url |-> loc[1].url])]_vars

\* C8: on a miss, when the unconditional request fails in the transport or
\* is answered with an error status (400-599), the call returns that error;
\* the committed rows and the files are those of before the call, and no
\* transaction was opened.
C8_InitialFailureIsReturned ==
    [][(/\ pc[1] = "fetch"
        /\ pc'[1] # "fetch"
        /\ Arrived(1)' \in {0} \cup ErrorStatuses)
       => (/\ pc'[1] = "done"
           /\ ret'[1].tag = "Err"
           /\ ret'[1].kind = (IF Arrived(1)' = 0 THEN "Transport" ELSE "Http")
           /\ db' = db
           /\ db = snap[1].db
           /\ files' = files
           /\ files = snap[1].files
           /\ tx' = tx
           /\ ~tx[1].open)]_vars

\* A first request for a url with no record was answered 400 and get
\* returned the error, while the other url has its record and its file.
C8_Witness ==
    /\ pc[1] = "done"
    /\ ~ret[1].hit
    /\ ret[1].tag = "Err"
    /\ ret[1].kind = "Http"
    /\ ret[1].status = 400
    /\ AsStr(ret[1].url) \notin DOMAIN db
    /\ DOMAIN db # {}

\* C9 (as claimed): when a get on a miss returned Ok, the handle holds the
\* body of the response, and the store holds a committed record for the url
\* whose path is the file returned.
C9_MissStoresRecord ==
    [][(/\ pc[1] = "open"
        /\ ~loc[1].hit
        /\ AsStr(loc[1].url) \notin DOMAIN snap[1].db
        /\ pc'[1] = "done"
        /\ ret'[1].tag = "Ok")
       => (/\ ret'[1].data = loc[1].resp.body
           /\ AsStr(loc[1].url) \in DOMAIN db'
           /\ db'[AsStr(loc[1].url)].path.kind = "String"
           /\ Join(Root, db'[AsStr(loc[1].url)].path.v) = ret'[1].path)]_vars

\* C10 (as claimed): a get that found a record (whose file exists) never
\* returns a network error: neither the failure of the transport nor the
\* failure of reading the body of the revalidation response.
C10_NetworkErrorsHiddenOnHit ==
    (pc[1] = "done" /\ ret[1].hit) => ret[1].kind \notin {"Transport", "Http", "Read"}

\* The request the call of instance c has sent.
Sent(c) == IF pc[c] = "done" THEN ret[c].req ELSE loc[c].req

\* C11 (as claimed): once a set(u1, r) returned Ok and its commit returned
\* Ok, get(u2) returns r for every url u2 that differs from u1 at most in
\* its fragment (so also after a later committed set through another
\* fragment).
C11_FragmentsShareRecord ==
    ret[1].tag = "Committed" =>
        \A u2 \in Urls :
            u2.base = loc[1].url.base =>
                CacheDBGet(View(1), u2, "none")
                    = [tag |-> "Ok", rec |-> loc[1].rec, url |-> loc[1].url]

\* C12: every request Cache::get hands to the transport, after a hit or
\* after a miss, is a GET whose url is the text of the caller's url without
\* its fragment: the base alone, with no "#" in it.
C12_RequestsCarryNoFragment ==
    [][(/\ pc[1] \in {"revalidate", "fetch"}
        /\ pc'[1] # pc[1])
       => (/\ Sent(1)'.method = "GET"
           /\ Sent(1)'.url = <<loc[1].arg.base>>
           /\ \A i \in 1..Len(Sent(1)'.url) : Sent(1)'.url[i] # "#")]_vars

\* A url passed with a fragment found a record, and the conditional request
\* sent for it names the url without the fragment.
C12_Witness ==
    /\ pc[1] = "record"
    /\ loc[1].arg = [base |-> "a", frag |-> Some(<<"f">>)]
    /\ loc[1].hit
    /\ loc[1].sent = 1
    /\ loc[1].req.url = <<"a">>

\* C13 (as claimed): the store holds at most one row per normalized url
\* (its keys carry no fragment), and once a set for a url that had a record
\* returned Ok and its commit returned Ok, get returns exactly the new
\* record.
C13_CommittedSetReplacesRecord ==
    /\ \A k \in DOMAIN db : \A i \in 1..Len(k) : k[i] # "#"
    /\ (/\ ret[1].tag = "Committed"
        /\ AsStr(loc[1].url) \in DOMAIN snap[1].db)
       => CacheDBGet(db, loc[1].url, "none").rec = loc[1].rec

\* C14 (as claimed): a get(u) that follows set(u, r) and its successful
\* commit, and whose query runs, returns r.
C14_SetCommitGetRoundTrip ==
    [][(/\ ret[1].tag = "Committed"
        /\ ret'[1].tag = "Got"
        /\ ret'[1].kind = "none"
        /\ got'[1].url = loc[1].url)
       => got'[1] = [tag |-> "Ok", rec |-> loc[1].rec, url |-> loc[1].url]]_vars

\* C15: the request sent after a hit carries If-Modified-Since exactly when
\* the row of the url has a text last_modified, with that text, and
\* If-None-Match exactly when it has a text etag, with that text; the
\* request sent after a miss carries neither.
C15_PreconditionsMirrorRecord ==
    [][/\ (pc[1] = "revalidate" /\ pc'[1] # "revalidate")
          => /\ KeyOf(1) \in DOMAIN db
             /\ Sent(1)'.if_modified_since.some
                    <=> (db[KeyOf(1)].last_modified.kind = "String")
             /\ Sent(1)'.if_modified_since.some
                    => Sent(1)'.if_modified_since.v = db[KeyOf(1)].last_modified.v
             /\ Sent(1)'.if_none_match.some
                    <=> (db[KeyOf(1)].etag.kind = "String")
             /\ Sent(1)'.if_none_match.some
                    => Sent(1)'.if_none_match.v = db[KeyOf(1)].etag.v
       /\ (pc[1] = "fetch" /\ pc'[1] # "fetch")
          => /\ Sent(1)'.if_modified_since = None
             /\ Sent(1)'.if_none_match = None]_vars

\* A revalidation was sent with both preconditions, for a record that has
\* both validators.
C15_Witness ==
    /\ pc[1] = "done"
    /\ ret[1].hit
    /\ ret[1].sent = 1
    /\ ret[1].req.if_modified_since = Some(<<"t1">>)
    /\ ret[1].req.if_none_match = Some(<<"e1">>)
    /\ db[KeyOf(1)].last_modified = String(<<"t1">>)
    /\ db[KeyOf(1)].etag = String(<<"e1">>)

\* The row the store held for the url of the call of instance c when the
\* call began has a path that is not text.
CorruptPath(c) ==
    /\ AsStr(loc[c].url) \in DOMAIN snap[c].db
    /\ snap[c].db[AsStr(loc[c].url)].path.kind # "String"

\* C16 (as claimed): a call of Cache::get for a url whose row has a non-text
\* path does not go on past its lookup (to request the url as if it were
\* not cached, and to download it): it returns the error of the lookup.
C16_CorruptPathFailsGet ==
    pc[1] \in {"revalidate", "fetch", "record", "set", "copy", "commit", "open"}
        => ~CorruptPath(1)

\* C17: CacheDB::get for a url whose row has a non-text path never returns
\* Ok, and when its query runs it returns WrongPathType (and no record).
C17_NonTextPathIsAnError ==
    (/\ ret[1].tag = "Got"
     /\ AsStr(got[1].url) \in DOMAIN db
     /\ db[AsStr(got[1].url)].path.kind # "String")
    => /\ got[1].tag # "Ok"
       /\ got[1].rec = NoRecord
       /\ ret[1].kind = "none" => got[1].tag = "WrongPathType"

\* get ran on a row whose path is a BLOB and whose etag is text.
C17_Witness ==
    /\ ret[1].tag = "Got"
    /\ ret[1].kind = "none"
    /\ got[1].tag = "WrongPathType"
    /\ got[1].url.base = "a"
    /\ db[<<"a">>].path = Binary(<<"abc">>)
    /\ db[<<"a">>].etag = String(<<"e1">>)

\* C18: CacheDB::get for a url whose row has a text path, when its query
\* runs, returns Ok with that path, and with each of last_modified, etag and
\* expires absent when the column is neither text nor NULL (and when it is
\* NULL), and present with the text when it is text.
C18_NonTextOptionalsAreAbsent ==
    (/\ ret[1].tag = "Got"
     /\ ret[1].kind = "none"
     /\ AsStr(got[1].url) \in DOMAIN db
     /\ db[AsStr(got[1].url)].path.kind = "String")
    => /\ got[1].tag = "Ok"
       /\ got[1].rec.path = db[AsStr(got[1].url)].path.v
       /\ \A f \in {"last_modified", "etag", "expires"} :
             got[1].rec[f] =
                IF db[AsStr(got[1].url)][f].kind = "String"
                THEN Some(db[AsStr(got[1].url)][f].v)
                ELSE None

\* get returned a record without last_modified and expires, whose columns
\* hold BLOBs, and with the etag the row has as text.
C18_Witness ==
    /\ ret[1].tag = "Got"
    /\ got[1].tag = "Ok"
    /\ db[AsStr(got[1].url)].last_modified = Binary(<<"abc">>)
    /\ db[AsStr(got[1].url)].expires = Binary(<<"ghi">>)
    /\ got[1].rec = [path |-> <<"content", "1">>, last_modified |-> None,
                     etag |-> Some(<<"e1">>), expires |-> None]

\* C19: on a hit whose file does not exist, when the revalidation ends in
\* serving the existing file (304, an error status, or a transport failure),
\* the call returns an error after that one request; the rows are those of
\* before the call, no file was created and no transaction opened.
C19_MissingFileIsAnError ==
    [][(/\ pc[1] = "revalidate"
        /\ pc'[1] # "revalidate"
        /\ RecordFile(1) \notin DOMAIN files
        /\ Arrived(1)' \in {0, 304} \cup ErrorStatuses)
       => (/\ pc'[1] = "done"
           /\ ret'[1].tag = "Err"
           /\ ret'[1].kind = "IO"
           /\ ret'[1].sent = 1
           /\ db' = db
           /\ db = snap[1].db
           /\ files' = files
           /\ files = snap[1].files
           /\ tx' = tx
           /\ ~tx[1].open)]_vars

\* A revalidation answered 304 for a record whose file is missing returned
\* an error, and the record is still there.
C19_Witness ==
    /\ pc[1] = "done"
    /\ ret[1].hit
    /\ ret[1].sent = 1
    /\ ret[1].status = 304
    /\ ret[1].tag = "Err"
    /\ ret[1].kind = "IO"
    /\ KeyOf(1) \in DOMAIN db
    /\ Join(Root, db[KeyOf(1)].path.v) \notin DOMAIN files

\* C20: when COMMIT fails, whether the ROLLBACK that follows succeeds
\* ("busy") or fails too ("io"), commit returns the error of COMMIT; no
\* transaction is left open and the committed rows are those of before the
\* set.
C20_CommitErrorIsReturned ==
    (ret[1].tag = "Err" /\ ret[1].kind \in {"busy", "io"})
    => /\ ret[1].via = "COMMIT"
       /\ ~tx[1].open
       /\ db = snap[1].db

\* A commit failed, and so did its ROLLBACK, for a set that had written a
\* row over a store that holds a record.
C20_Witness ==
    /\ ret[1].tag = "Err"
    /\ ret[1].kind = "io"
    /\ ret[1].via = "COMMIT"
    /\ DOMAIN db # {}
    /\ AsStr(loc[1].url) \in DOMAIN db
    /\ db[AsStr(loc[1].url)] # RowOf(loc[1].rec)

\* C21: when a handle is opened on a store whose table was there when the
\* tables were counted, the open succeeds without loading the schema: the
\* tables and the committed rows are left as they were, so that a lookup
\* through the new handle returns, for every url, the record committed
\* through the other handle.
C21_ReopenKeepsRecords ==
    [][(/\ pc[2] = "schema"
        /\ pc'[2] # "schema"
        /\ loc[2].n # 0)
       => (/\ pc'[2] = "idle"
           /\ ret'[2].tag = "New"
           /\ ret'[2].kind = "reused"
           /\ Master' = <<"urls">>
           /\ Master' = Master
           /\ db' = db
           /\ \A u \in Urls :
                 CacheDBGet(View(2)', u, "none") = CacheDBGet(db, u, "none"))]_vars

\* The second handle has just been opened on a store that held, before the
\* open, a record committed through the first, and still holds it.
C21_Witness ==
    /\ pc[2] = "idle"
    /\ ret[2].tag = "New"
    /\ ret[2].kind = "reused"
    /\ ret[1].tag = "Committed"
    /\ <<"a">> \in DOMAIN snap[2].db
    /\ snap[2].db[<<"a">>].etag = String(<<"e1">>)
    /\ db = snap[2].db

\* C23 (as claimed): of two Cache::new on a root with no store yet, in any
\* interleaving, neither fails on the table the other has created (both
\* succeed unless the directory or the store cannot be opened, read or
\* written), and the table is created once.
C23_ConcurrentNewSucceeds ==
    /\ Master \in {<<>>, <<"urls">>}
    /\ \A c \in Conns :
          ~(/\ pc[c] = "closed"
            /\ ret[c].tag = "Err"
            /\ ret[c].kind = "Database"
            /\ ret[c].via = "exists")

\* C22 (as claimed): of two instances that both found no record for one
\* url and both fetch it, when the COMMIT of the second succeeds after that
\* of the first (which has returned Ok, or is about to), the store holds
\* for the url the record of the second, the one that committed last,
\* naming its completely written file, and the file of the first is still
\* there.
C22_LastCommitWins ==
    [][\A c \in Conns : \A d \in Conns \ {c} :
          (/\ pc[c] = "commit"
           /\ ~loc[c].hit
           /\ pc'[c] = "open"
           /\ \/ /\ pc[d] = "done"
                 /\ ret[d].tag = "Ok"
                 /\ ret[d].via = "fetch"
                 /\ ~ret[d].hit
              \/ /\ pc[d] = "open"
                 /\ ~loc[d].hit)
          => (/\ AsStr(loc[c].url) \in DOMAIN db'
              /\ db'[AsStr(loc[c].url)].path = String(StripPrefix(loc[c].path, Root).v)
              /\ loc[c].path \in copied'
              /\ (IF pc[d] = "done" THEN ret[d].path ELSE loc[d].path)
                    \in DOMAIN files')]_vars

\* C24: after get returned a network error (transport, status, body read)
\* or a disk error (file creation, file write, file open), no transaction is
\* open on the connection of the instance, so that the BEGIN of a later get
\* does not fail for a transaction left open; and whenever a get of the
\* instance begins its transaction, none is open.
C24_ErrorsLeaveNoTransaction ==
    /\ (/\ pc[1] = "done"
        /\ ret[1].tag = "Err"
        /\ ret[1].kind \in {"Transport", "Http", "Read", "Write", "IO"})
       => (/\ ~tx[1].open
           /\ tx[1] = NoTx
           /\ "ok" \in SetOutcomes(1))
    /\ pc[1] \in {"idle", "revalidate", "fetch", "record", "set"} => ~tx[1].open

\* A later get holds an open transaction with its row written, while the
\* file left by an earlier get whose body copy failed lies incomplete in the
\* content directory.
C24_Witness ==
    /\ pc[1] = "copy"
    /\ tx[1].open
    /\ DOMAIN tx[1].writes # {}
    /\ \E p \in DOMAIN files \ copied : p # loc[1].path

\* C25: after a call of get was interrupted, at any point, no transaction
\* is open and every committed record names a file that exists and was
\* completely copied; interrupted at any point before COMMIT, the committed
\* rows are those the call found; interrupted during the body copy or
\* between the copy and the commit, its new file is on disk and no
\* committed record names it.
C25_CrashLeavesStoreValid ==
    (pc[1] = "idle" /\ ret[1].tag = "Crashed")
    => /\ ret[1].kind # "open" => db = snap[1].db
       /\ ~tx[1].open
       /\ \A k \in DOMAIN db :
             /\ db[k].path.kind = "String"
             /\ Join(Root, db[k].path.v) \in DOMAIN files
             /\ Join(Root, db[k].path.v) \in copied
       /\ ret[1].kind \in {"copy", "commit"}
             => /\ ret[1].path \in DOMAIN files
                /\ \A k \in DOMAIN db : Join(Root, db[k].path.v) # ret[1].path
                /\ ret[1].kind = "commit" => ret[1].path \in copied

\* A get that was replacing the record of the url was interrupted after
\* the first byte of the body: its file holds that byte, and the store holds
\* the earlier record.
C25_Witness ==
    /\ pc[1] = "idle"
    /\ ret[1].tag = "Crashed"
    /\ ret[1].kind = "copy"
    /\ ret[1].path \notin copied
    /\ files[ret[1].path] = <<1>>
    /\ AsStr(ret[1].url) \in DOMAIN db

\* C29 (as claimed): on a hit, a response whose status is neither 304 nor
\* in 400-599 (204, 303, 305, 399 as well as 200) is the one get goes on to
\* record, with no other request sent, and a response with status 304 ends
\* the call at once with the file of the record; and when the get that
\* cached such a response returns Ok, the body of that response is in a
\* file that was not there when the call began, and the record of the url
\* is replaced by one that names that file and carries the validators of
\* that response.
C29_FreshResponseReplacesRecord ==
    [][/\ (/\ pc[1] = "revalidate"
           /\ pc'[1] \in {"record", "done"}
           /\ Arrived(1)' # 0)
          => (/\ Arrived(1)' \notin {304} \cup ErrorStatuses
                 => /\ pc'[1] = "record"
                    /\ loc'[1].sent = 1
                    /\ loc'[1].resp.body = <<1, 2>>
                    /\ loc'[1].resp.status = Arrived(1)'
              /\ Arrived(1)' = 304
                 => /\ pc'[1] = "done"
                    /\ ret'[1].sent = 1
                    /\ ret'[1].path = (IF ret'[1].tag = "Ok" THEN RecordFile(1) ELSE <<>>)
                    /\ files' = files)
       /\ (/\ pc[1] = "open"
           /\ loc[1].hit
           /\ pc'[1] = "done"
           /\ ret'[1].tag = "Ok")
          => (/\ loc[1].resp.status \notin {304} \cup ErrorStatuses
              /\ ret'[1].path = loc[1].path
              /\ ret'[1].path \notin DOMAIN snap[1].files
              /\ files'[ret'[1].path] = loc[1].resp.body
              /\ KeyOf(1) \in DOMAIN db'
              /\ RowOf(RecordOf(loc[1].path, loc[1].resp)) = db'[KeyOf(1)]
              /\ db'[KeyOf(1)] # snap[1].db[KeyOf(1)])]_vars

\* C26 (as claimed): whenever get has returned Ok with the file it
\* fetched, the store holds a committed record for the url whose path is
\* that file (a failed upsert would have made CacheDB::set, and so get,
\* return an error).
C26_FetchedFileIsRecorded ==
    (pc[1] = "done" /\ ret[1].tag = "Ok" /\ ret[1].via = "fetch")
    => /\ KeyOf(1) \in DOMAIN db
       /\ db[KeyOf(1)].path.kind = "String"
       /\ Join(Root, db[KeyOf(1)].path.v) = ret[1].path

\* C27: the lookup never ends the call: after it, get either revalidates
\* the record the store holds for the url, or, for every failure of the
\* lookup (no row, a path that is not text, a database error), goes on to
\* request the url; and the request sent then is an unconditional GET.
C27_LookupFailureIsAMiss ==
    [][/\ (/\ pc[1] \in {"idle", "done"}
           /\ pc'[1] # "idle"
           /\ <<pc[1], ret[1]>>' # <<pc[1], ret[1]>>)
          => /\ pc'[1] \in {"revalidate", "fetch"}
             /\ ret'[1] = NoRet
             /\ CacheDBGet(db, loc'[1].url, "none").tag \in {"URLNotFound", "WrongPathType"}
                   => (pc'[1] = "fetch" /\ ~loc'[1].hit)
             /\ pc'[1] = "revalidate"
                   => /\ loc'[1].hit
                      /\ CacheDBGet(db, loc'[1].url, "none").tag = "Ok"
                      /\ CacheDBGet(db, loc'[1].url, "none").rec = loc'[1].rec
       /\ (pc[1] = "fetch" /\ pc'[1] # "fetch")
          => /\ Sent(1)' = [method |-> "GET", url |-> <<loc[1].url.base>>,
                            if_modified_since |-> None, if_none_match |-> None]
             /\ ~loc[1].hit]_vars

\* A get whose lookup met a path that is not text has sent its
\* unconditional request and is recording the response.
C27_Witness ==
    /\ pc[1] = "record"
    /\ ~loc[1].hit
    /\ loc[1].sent = 1
    /\ CorruptPath(1)
    /\ loc[1].req.method = "GET"
    /\ loc[1].req.if_none_match = None

\* C28: a call of get sends no request before its lookup is over, has sent
\* exactly one once it records, copies or commits a response, and has sent
\* exactly one whenever it returned Ok: a file is never returned without a
\* request having been made for it, and no second request follows the
\* first.
C28_ExactlyOneRequest ==
    /\ loc[1].sent \in {0, 1}
    /\ ret[1].sent \in {0, 1}
    /\ pc[1] \in {"idle", "revalidate", "fetch"} => loc[1].sent = 0
    /\ pc[1] \in {"record", "set", "copy", "commit", "open"}
          => (loc[1].sent = 1 /\ loc[1].req.method = "GET")
    /\ (pc[1] = "done" /\ ret[1].tag = "Ok")
          => (ret[1].sent = 1 /\ ret[1].req.method = "GET")
    /\ (pc[1] = "done" /\ ret[1].via = "serve") => ret[1].hit

\* A revalidation was answered 200, and get returned the new file after
\* that one request.
C28_Witness ==
    /\ pc[1] = "done"
    /\ ret[1].tag = "Ok"
    /\ ret[1].via = "fetch"
    /\ ret[1].hit
    /\ ret[1].status = 200
    /\ ret[1].sent = 1

\* C30: the record a fetch commits has last_modified and etag exactly as
\* the response it persisted has them, absent when the response has none,
\* whatever the record it replaces had; so the conditional request built
\* from the new record carries a precondition only for a validator of that
\* response.
C30_ValidatorsComeFromResponse ==
    [][(/\ pc[1] = "commit"
        /\ pc'[1] \in {"open", "done"}
        /\ db' # db \/ (pc'[1] = "open" /\ DOMAIN tx[1].writes # {}))
       => (/\ AsStr(loc[1].url) \in DOMAIN db'
           /\ db'[AsStr(loc[1].url)].last_modified =
                 (IF loc[1].resp.last_modified.some
                  THEN String(loc[1].resp.last_modified.v) ELSE Null)
           /\ db'[AsStr(loc[1].url)].etag =
                 (IF loc[1].resp.etag.some
                  THEN String(loc[1].resp.etag.v) ELSE Null)
           /\ CacheDBGet(db', loc[1].url, "none").rec.last_modified
                 = loc[1].resp.last_modified
           /\ CacheDBGet(db', loc[1].url, "none").rec.etag = loc[1].resp.etag
           /\ ConditionalRequest(loc[1].url,
                                 CacheDBGet(db', loc[1].url, "none").rec)
                 = [method |-> "GET", url |-> AsStr(loc[1].url),
                    if_modified_since |-> loc[1].resp.last_modified,
                    if_none_match |-> loc[1].resp.etag])]_vars

\* A record with both validators, for which both preconditions were sent,
\* was replaced by the record of a response that has neither.
C30_Witness ==
    /\ pc[1] = "done"
    /\ ret[1].tag = "Ok"
    /\ ret[1].via = "fetch"
    /\ ret[1].hit
    /\ ret[1].req.if_modified_since = Some(<<"t1">>)
    /\ ret[1].req.if_none_match = Some(<<"e1">>)
    /\ KeyOf(1) \in DOMAIN db
    /\ db[KeyOf(1)].last_modified = Null
    /\ db[KeyOf(1)].etag = Null
    /\ Join(Root, db[KeyOf(1)].path.v) = ret[1].path

\* The call of instance 1 found a record, its request was answered 304 or
\* failed, and the file of the record stored for its url is not on disk.
C31_ServedMissingFile ==
    /\ pc[1] = "done"
    /\ ret[1].hit
    /\ ret[1].status \in {0, 304} \cup ErrorStatuses
    /\ KeyOf(1) \in DOMAIN db
    /\ db[KeyOf(1)].path.kind = "String"
    /\ Join(Root, db[KeyOf(1)].path.v) \notin DOMAIN files

\* C31 as stated: a record whose content file is absent is treated as a
\* missing entry, and does not make get fail on opening the file.
C31_MissingFileIsAMiss ==
    C31_ServedMissingFile => ~(ret[1].tag = "Err" /\ ret[1].kind = "IO")

\* C31, amended: a record whose content file is absent is not treated as a
\* missing entry.  The lookup is a hit and one conditional request is sent;
\* when it is answered 304 or fails, get returns the io::Error of opening
\* the file, and sends no second request.
C31_MissingFileFailsGet ==
    C31_ServedMissingFile =>
        /\ ret[1].tag = "Err"
        /\ ret[1].kind = "IO"
        /\ ret[1].sent = 1
        /\ ret[1].req = ConditionalRequest(ret[1].url, CacheDBGet(db, ret[1].url, "none").rec)

\* A revalidation that failed in transport, for a record whose file is
\* missing, returned the io::Error.
C31_Witness ==
    /\ C31_ServedMissingFile
    /\ ret[1].status = 0
    /\ ret[1].sent = 1
    /\ ret[1].tag = "Err"
    /\ ret[1].kind = "IO"

\* The step is the metadata lookup of a call of get by instance c.
C32_Looks(c) ==
    /\ pc[c] \in {"idle", "done"}
    /\ pc'[c] \in {"revalidate", "fetch"}

\* C32: a lookup made while another instance has a write transaction open
\* finds the committed record or none, and never the record that is pending
\* in the transaction; a transaction that ends without a successful commit
\* leaves the committed rows as they were, so that no later lookup finds
\* its record either.
C32_PendingRecordIsNeverObserved ==
    [][\A c \in Conns :
        /\ C32_Looks(c) =>
              /\ loc'[c].hit => KeyOf(c)' \in DOMAIN db
              /\ loc'[c].hit => RowOf(loc'[c].rec) = db[KeyOf(c)']
              /\ ~loc'[c].hit => loc'[c].rec = NoRecord
              /\ \A d \in Conns \ {c} :
                    tx[d].open /\ KeyOf(c)' \in DOMAIN tx[d].writes =>
                        loc'[c].rec.path # tx[d].writes[KeyOf(c)'].path.v
        /\ (tx[c].open /\ ~tx'[c].open /\ pc'[c] # "open") => db' = db]_vars

\* Instance 2 has just looked the url up and found the committed record,
\* while instance 1 holds an open transaction with another record for it.
C32_Witness ==
    /\ pc[2] = "revalidate"
    /\ loc[2].sent = 0
    /\ tx[1].open
    /\ KeyOf(2) \in DOMAIN tx[1].writes
    /\ KeyOf(2) \in DOMAIN db
    /\ tx[1].writes[KeyOf(2)] # db[KeyOf(2)]
    /\ RowOf(loc[2].rec) = db[KeyOf(2)]

\* C33: while an instance copies the body, it holds an open transaction in
\* which the upsert of its record is pending, and the committed rows do not
\* change: no other writer on the store commits before the copy has ended
\* or failed.
C33_DownloadHoldsWriteTransaction ==
    [][\A c \in Conns :
        pc[c] = "copy" =>
            /\ tx[c].open
            /\ KeyOf(c) \in DOMAIN tx[c].writes
            /\ db' = db]_vars

\* C34: make_random_file returns only a path in the content directory at
\* which no file existed, where it has created an empty file, and it leaves
\* every file that existed as it was; when it fails, the error is returned
\* at once and no file was created or changed.
C34_RandomFileIsNew ==
    [][\A c \in Conns :
        pc[c] = "record" =>
            /\ pc'[c] \in {"record", "set", "done"}
            /\ pc'[c] = "set" =>
                  /\ loc'[c].path \notin DOMAIN files
                  /\ \A p \in DOMAIN files : files'[p] = files[p]
                  /\ loc'[c].path \in {Join(ContentDir, <<n>>) : n \in Names}
                  /\ DOMAIN files' = DOMAIN files \cup {loc'[c].path}
                  /\ files'[loc'[c].path] = <<>>
            /\ pc'[c] = "done" =>
                  /\ ret'[c].tag = "Err"
                  /\ ret'[c].kind = "IO"
                  /\ files' = files]_vars

\* make_random_file has returned a new, empty file to instance 1 while the
\* content directory holds another file that has bytes in it.
C34_Witness ==
    /\ pc[1] = "set"
    /\ loc[1].path \in DOMAIN files
    /\ files[loc[1].path] = <<>>
    /\ \E p \in DOMAIN files : p # loc[1].path /\ files[p] # <<>>

\* C35: no step of a call of get removes a file or changes the bytes a file
\* already has.  A file only ever gains a byte at its end, from the one
\* call that created it and is copying its body into it; every other file,
\* that of a superseded record or of a failed call included, stays as it is.
C35_ContentFilesOnlyGrow ==
    [][\A p \in DOMAIN files :
        /\ p \in DOMAIN files'
        /\ \/ files'[p] = files[p]
           \/ \E c \in Conns :
                /\ pc[c] = "copy"
                /\ loc[c].path = p
                /\ loc[c].n = Len(files[p])
                /\ files'[p] = Append(files[p], loc[c].resp.body[loc[c].n + 1])
                /\ \A d \in Conns \ {c} : loc[d].path # p]_vars

\* A call that found a record has fetched and committed a new file, and
\* the whole file of an earlier fetch is still on disk.
C35_Witness ==
    /\ pc[1] = "done"
    /\ ret[1].tag = "Ok"
    /\ ret[1].via = "fetch"
    /\ ret[1].hit
    /\ \E p \in copied : p # ret[1].path /\ p \in DOMAIN files /\ files[p] = <<1>>

\* C36: when the revalidation of a hit fails, in transport or with an error
\* status, the call ends with that one request: it has opened no
\* transaction and created no file, and the committed rows and the files
\* are those of before the call.
C36_FailedRevalidationWritesNothing ==
    [][(/\ pc[1] = "revalidate"
        /\ pc'[1] # "revalidate"
        /\ Arrived(1)' \in {0} \cup ErrorStatuses)
       => (/\ pc'[1] = "done"
           /\ ret'[1].sent = 1
           /\ ret'[1].via = "serve"
           /\ ~tx[1].open
           /\ tx' = tx
           /\ db' = db
           /\ db = snap[1].db
           /\ files' = files
           /\ files = snap[1].files
           /\ copied' = copied)]_vars

\* A revalidation answered 400 was served from the one file there is, and
\* no transaction is open.
C36_Witness ==
    /\ pc[1] = "done"
    /\ ret[1].hit
    /\ ret[1].sent = 1
    /\ ret[1].status = 400
    /\ ret[1].via = "serve"
    /\ ~tx[1].open
    /\ KeyOf(1) \in DOMAIN db
    /\ DOMAIN files = {Join(Root, db[KeyOf(1)].path.v)}

\* C37: the commit of a fetch stores for the url the path content/<name>,
\* which joined to the root is the file the call has written the whole body
\* to and returns; no step changes the bytes of the file of a committed
\* record; and a revalidation answered 304 returns the file at the root
\* joined with the stored path, with the bytes it has.
C37_StoredPathNamesTheFetchedFile ==
    [][/\ (/\ pc[1] = "commit"
           /\ pc'[1] = "open"
           /\ KeyOf(1) \in DOMAIN tx[1].writes)
          => (/\ KeyOf(1) \in DOMAIN db'
              /\ db'[KeyOf(1)].path \in {String(<<"content", n>>) : n \in Names}
              /\ Join(Root, db'[KeyOf(1)].path.v) = loc[1].path
              /\ loc[1].path \in copied
              /\ files[loc[1].path] = loc[1].resp.body)
       /\ (pc[1] = "open" /\ pc'[1] = "done")
          => (/\ ret'[1].tag = "Ok"
              /\ ret'[1].path = loc[1].path
              /\ ret'[1].data = loc[1].resp.body)
       /\ \A k \in DOMAIN db :
            /\ Join(Root, db[k].path.v) \in DOMAIN files
            /\ files'[Join(Root, db[k].path.v)] = files[Join(Root, db[k].path.v)]
       /\ (/\ pc[1] = "revalidate"
           /\ pc'[1] # "revalidate"
           /\ Arrived(1)' = 304)
          => (/\ ret'[1].tag = "Ok"
              /\ ret'[1].path = Join(Root, db[KeyOf(1)].path.v)
              /\ ret'[1].path \in copied
              /\ ret'[1].data = files[ret'[1].path])]_vars

\* After two fetches, a revalidation answered 304 returned the file the
\* committed record names, with its two bytes, while the other file has
\* one byte.
C37_Witness ==
    /\ pc[1] = "done"
    /\ ret[1].status = 304
    /\ ret[1].tag = "Ok"
    /\ KeyOf(1) \in DOMAIN db
    /\ db[KeyOf(1)].path.v[1] = "content"
    /\ ret[1].path = Join(Root, db[KeyOf(1)].path.v)
    /\ ret[1].path \in copied
    /\ ret[1].data = <<1, 2>>
    /\ \E p \in copied : p # ret[1].path /\ files[p] = <<1>>

\* C38: CacheDB::get, when its query runs, for a url whose text without the
\* fragment is the key of no committed row, returns URLNotFound with the
\* url without its fragment and no record, whatever rows the store holds
\* for other urls.
C38_UnknownUrlIsNotFound ==
    (/\ ret[1].tag = "Got"
     /\ ret[1].kind = "none"
     /\ <<loc[1].arg.base>> \notin DOMAIN db)
    => (/\ got[1].tag = "URLNotFound"
        /\ got[1].url = [base |-> loc[1].arg.base, frag |-> None]
        /\ got[1].rec = NoRecord)

\* get of a url of base "b" with a fragment returned URLNotFound for the
\* url without it, while the store holds a row for "a".
C38_Witness ==
    /\ ret[1].tag = "Got"
    /\ ret[1].kind = "none"
    /\ loc[1].arg = [base |-> "b", frag |-> Some(<<"f">>)]
    /\ DOMAIN db = {<<"a">>}
    /\ got[1].tag = "URLNotFound"
    /\ got[1].url = [base |-> "b", frag |-> None]

\* How far a call of get has come.
C39_Rank(p) ==
    CASE p = "idle" -> 0
      [] p \in {"revalidate", "fetch"} -> 1
      [] p = "record" -> 2
      [] p = "set" -> 3
      [] p = "copy" -> 4
      [] p = "commit" -> 5
      [] p = "open" -> 6
      [] OTHER -> 7

\* Every step that changes the state during a call of get brings it
\* further, or copies one more byte of the body.
C39_EveryStepAdvances ==
    [][pc[1] \notin {"idle", "done"} =>
          /\ \/ C39_Rank(pc'[1]) > C39_Rank(pc[1])
             \/ /\ pc[1] = "copy"
                /\ pc'[1] = "copy"
                /\ loc'[1].n = loc[1].n + 1
                /\ loc'[1].n <= Len(loc[1].resp.body)
          /\ loc'[1].sent <= 1
          /\ ret'[1].sent <= 1]_vars

\* A call of get that is under way returns.
C39_EveryCallReturns ==
    (pc[1] \notin {"idle", "done"}) ~> (pc[1] = "done")

\* C39: a call of get whose request and body stream complete returns Ok or
\* Err, after one lookup, at most one request, one copy of the body and one
\* commit: each of its steps brings it further, but for the turns of the
\* loop of make_random_file on names that are taken, which end when a free
\* name is drawn.
C39_GetTerminates ==
    C39_EveryStepAdvances /\ C39_EveryCallReturns

\* A call that found a record has returned the new file it fetched with one
\* request, and the content directory holds two files: one name was taken
\* when the new one was drawn.
C39_Witness ==
    /\ pc[1] = "done"
    /\ ret[1].tag = "Ok"
    /\ ret[1].via = "fetch"
    /\ ret[1].hit
    /\ ret[1].sent = 1
    /\ ret[1].data = <<1, 2>>
    /\ Cardinality(DOMAIN files) = 2

====
